---- MODULE Spec2Model ----
(***************************************************************************)
(* OllamaBot: the message pipeline of OllamaBot.on_message (reply-chain    *)
(* walk, history window, assembly, model call, reply delivery) and the     *)
(* per-guild settings store of settings_manager.py with its write-through  *)
(* persistence.                                                            *)
(*                                                                         *)
(* A Discord message object is a record [id, via]: `id` is msg.id and      *)
(* `via` names the call that produced the object (two objects with the     *)
(* same id are different Python objects).  The attributes the code reads   *)
(* from a message (created_at, author, type, reference) are functions of   *)
(* its id held in the variables created_at, bot_authored and links.        *)
(***************************************************************************)
EXTENDS Integers, Sequences, FiniteSets, TLC

\* ------------------------------------------------------------- bounds

\* Message ids of the channel in the assembly and reply-walk specifications.
MaxMsgs == 3
\* Distinct creation times (ties happen when MaxTime < MaxMsgs).
MaxTime == 2
\* Largest limit handed to reply_history in the reply-walk specification.
MaxLimit == 3

MsgIds == 1..MaxMsgs
Times == 1..MaxTime

\* Guild ids in which commands are invoked and messages arrive.
MaxGuilds == 1
\* Message ids of the channel in the whole-handler specification.
PipeMsgs == 2
\* Response lengths tried on each side of MAX_LENGTH.
LenSlack == 1

GuildIds == 1..MaxGuilds

\* ollama_bot.py:16
MAX_LENGTH == 2000
\* ollama_bot.py:137: len("Error generating response: ")
ERROR_PREFIX_LENGTH == 27
\* settings_manager.py:42 and 47
DEFAULT_REPLY_HISTORY == 10
DEFAULT_MESSAGE_HISTORY == 10

VARIABLES
    \* --- one execution of OllamaBot.on_message
    pc,               \* position of the handler
    trigger,          \* `message`: id of the message that triggered the handler
    ids,              \* ids of the messages that exist in the channel
    created_at,       \* msg.created_at, by id
    bot_authored,     \* ids whose author is the bot (message.author == self.user)
    links,            \* msg.type / msg.reference, by id ("unknown": not read yet)
    reply_limit,      \* `limit` of the running reply_history generator
    history_window,   \* the list built at ollama_bot.py:113
    message_replies,  \* the list built at ollama_bot.py:114
    current_message,  \* reply_history: current_message (an id)
    count,            \* reply_history: count
    message_history,  \* the list of ollama_bot.py:117-123
    request,          \* the list of ollama_bot.py:126-131, handed to chat()
    response_text,    \* ollama_bot.py:135/137
    reply,            \* the message.reply call made at ollama_bot.py:144-149
    config,           \* `config`: the GuildSettings on_message looked up
    chat_calls,       \* calls of ollama_client.chat this handler has made
    \* --- the SettingsManager of the bot
    guild_settings,   \* self.guild_settings: a dict, as its items in insertion order
    file,             \* the backing file at self.path
    next_oid,         \* identity of the next GuildSettings object constructed
    handed,           \* by guild id, the identity of the object __getitem__ returned
    op,               \* the last call made on the store, with its outcome
    write_failures,   \* writes of save() that have failed so far
    \* --- the event loop of the bot
    tasks,            \* by task, the handler it runs and where that handler is
    running,          \* the task the event loop is running, 0 between tasks
    \* --- model_group.py: the autocomplete of model names
    clock,            \* time.monotonic(), in seconds
    model_cache,      \* _model_cache: the last fetch time and the choices
    autocomplete      \* the call of model_autocomplete: its locals and result

pipeVars == <<pc, trigger, ids, created_at, bot_authored, links, reply_limit,
              history_window, message_replies, current_message, count,
              message_history, request, response_text, reply, config, chat_calls>>

storeVars == <<guild_settings, file, next_oid, handed, op, write_failures>>

concVars == <<tasks, running>>

acVars == <<clock, model_cache, autocomplete>>

vars == <<pipeVars, storeVars, concVars, acVars>>

\* ------------------------------------------------------------ helpers

Range(s) == {s[i] : i \in 1..Len(s)}

IdsOf(s) == [i \in 1..Len(s) |-> s[i].id]

\* Sequences over S without repetition, of length at most n.
InjSeqs(S, n) ==
    UNION {{s \in [1..k -> S] : \A i, j \in 1..k : s[i] = s[j] => i = j} : k \in 0..n}

Perms(n) == {f \in [1..n -> 1..n] : \A i, j \in 1..n : f[i] = f[j] => i = j}

Msg(i, how) == [id |-> i, via |-> how]

\* An optional value: <<>> is Python's None, <<v>> is the value v.
NoValue == <<>>

\* ---------------------------------- settings_manager.py: the mapping

\* settings_manager.py:7-50: a GuildSettings with the defaults of its fields;
\* oid is the identity of the object, on_change whether the hook is set.
GuildSettings(gid, oid) ==
    [oid |-> oid, guild_id |-> gid,
     system_prompt |-> "You are a helpful assistant.", model |-> "llama3",
     required_role |-> NoValue,
     reply_history |-> DEFAULT_REPLY_HISTORY,
     message_history |-> DEFAULT_MESSAGE_HISTORY,
     on_change |-> TRUE]

HasKey(d, k) == \E i \in 1..Len(d) : d[i].key = k

Lookup(d, k) == d[CHOOSE i \in 1..Len(d) : d[i].key = k].obj

\* dict.__setitem__: a known key keeps its position, a new key goes last.
DictSet(d, k, o) ==
    IF HasKey(d, k)
    THEN [i \in 1..Len(d) |-> IF d[i].key = k THEN [key |-> k, obj |-> o] ELSE d[i]]
    ELSE Append(d, [key |-> k, obj |-> o])

GetItemAlwaysNew(d, next, k) ==
    [d |-> DictSet(d, k, GuildSettings(k, next)), next |-> next + 1]

\* settings_manager.py:102-115: SettingsManager.__getitem__: the mapping and
\* the allocation counter after the lookup of k.
GetItem(d, next, k) ==
    IF ~HasKey(d, k)
    THEN [d |-> DictSet(d, k, GuildSettings(k, next)), next |-> next + 1]
    ELSE [d |-> d, next |-> next]

\* ------------------------- settings_manager.py: the backing file

\* str(int) and int(str), on strings held as sequences of characters.
DigitChars == <<"0", "1", "2", "3", "4", "5", "6", "7", "8", "9">>

RECURSIVE NatToStr(_)
NatToStr(n) ==
    IF n < 10 THEN <<DigitChars[n + 1]>>
    ELSE NatToStr(n \div 10) \o <<DigitChars[(n % 10) + 1]>>

\* json.dump writes an int key of the dict as str(key).
IntToStr(n) == IF n < 0 THEN <<"-">> \o NatToStr(0 - n) ELSE NatToStr(n)

IsDigit(c) == \E d \in 1..10 : DigitChars[d] = c

DigitValue(c) == (CHOOSE d \in 1..10 : DigitChars[d] = c) - 1

RECURSIVE DigitsValue(_, _)
DigitsValue(s, acc) ==
    IF s = <<>> THEN acc ELSE DigitsValue(Tail(s), acc * 10 + DigitValue(Head(s)))

\* int(gid_str): <<n>>, or <<>> when it raises ValueError.
ParseInt(s) ==
    LET body == IF s # <<>> /\ Head(s) \in {"-", "+"} THEN Tail(s) ELSE s IN
    IF body = <<>> \/ \E i \in 1..Len(body) : ~IsDigit(body[i]) THEN <<>>
    ELSE IF Head(s) = "-" THEN <<0 - DigitsValue(body, 0)>>
    ELSE <<DigitsValue(body, 0)>>

\* The keyword parameters of GuildSettings.__init__ that **data may give.
InitFields == {"guild_id", "system_prompt", "model", "required_role",
               "reply_history", "message_history"}

\* The fields a command assigns.
SettingFields == InitFields \ {"guild_id"}

DictFactoryDropFalsy(o) ==
    [k \in {f \in InitFields :
               /\ f = "required_role" => o[f] # NoValue
               /\ f \in {"reply_history", "message_history"} => o[f] # 0} |->
        IF k = "required_role" THEN o[k][1] ELSE o[k]]

\* settings_manager.py:69-78, 156-159: asdict(settings, dict_factory): the
\* JSON object of one guild, without on_change and without a field that is
\* None (required_role is the field the commands set to None).
dict_factory(o) ==
    [k \in {f \in InitFields : f # "required_role" \/ o[f] # NoValue} |->
        IF k = "required_role" THEN o[k][1] ELSE o[k]]

\* settings_manager.py:156-159: `serializable`, as the items json.dump writes.
Serialize(d) ==
    [i \in 1..Len(d) |-> [key |-> IntToStr(d[i].key), data |-> dict_factory(d[i].obj)]]

\* settings_manager.py:140-143: GuildSettings(**data, on_change=...): raises
\* TypeError on a keyword that is no field (or on_change given twice) and on
\* a missing guild_id; a field that is not given takes its default.
ConstructOk(data) == DOMAIN data \subseteq InitFields /\ "guild_id" \in DOMAIN data

Construct(data, oid) ==
    [k \in DOMAIN GuildSettings(0, oid) |->
        IF k = "oid" THEN oid
        ELSE IF k = "on_change" THEN TRUE
        ELSE IF k \in DOMAIN data
             THEN IF k = "required_role" THEN <<data[k]>> ELSE data[k]
             ELSE GuildSettings(0, oid)[k]]

\* settings_manager.py:139-143: the loop over data.items(): the mapping and
\* the allocation counter when it ends, and whether it raised.
RECURSIVE LoadItems(_, _, _)
LoadItems(entries, d, next) ==
    IF entries = <<>> THEN [d |-> d, next |-> next, raised |-> FALSE]
    ELSE LET e == Head(entries) IN
         IF ~ConstructOk(e.data) THEN [d |-> d, next |-> next, raised |-> TRUE]
         ELSE IF ParseInt(e.key) = <<>> THEN [d |-> d, next |-> next + 1, raised |-> TRUE]
         ELSE LoadItems(Tail(entries),
                        DictSet(d, ParseInt(e.key)[1], Construct(e.data, next)),
                        next + 1)

LoadKeepPartial(d, f, next) ==
    IF f.state = "absent" THEN [d |-> d, next |-> next, raised |-> FALSE]
    ELSE IF f.state = "garbage" THEN [d |-> d, next |-> next, raised |-> FALSE]
    ELSE [d |-> LoadItems(f.entries, d, next).d, next |-> LoadItems(f.entries, d, next).next,
          raised |-> FALSE]

\* settings_manager.py:127-149: SettingsManager.load on the mapping d and the
\* file f: the mapping after it, and whether an exception reaches the caller.
Load(d, f, next) ==
    IF f.state = "absent" THEN [d |-> d, next |-> next, raised |-> FALSE]
    ELSE IF f.state = "garbage" THEN [d |-> <<>>, next |-> next, raised |-> FALSE]
    ELSE LET r == LoadItems(f.entries, d, next) IN
         IF r.raised THEN [d |-> <<>>, next |-> r.next, raised |-> FALSE]
         ELSE [d |-> r.d, next |-> r.next, raised |-> FALSE]

\* How the write of save() can end: it succeeds, mkdir or open raises (the
\* file is untouched), or the dump raises after open(path, "w") truncated it.
WriteOutcomes == {"ok", "failed_before_open", "failed_after_open"}

GarbageFile == [state |-> "garbage", entries |-> <<>>]

SaveRaises(d, f, outcome) ==
    [file |-> IF outcome = "ok" THEN [state |-> "json", entries |-> Serialize(d)]
              ELSE IF outcome = "failed_before_open" THEN f ELSE GarbageFile,
     raised |-> outcome # "ok"]

\* settings_manager.py:151-169: SettingsManager.save: the file after it, and
\* whether an exception reaches the caller.
Save(d, f, outcome) ==
    [file |-> IF outcome = "ok" THEN [state |-> "json", entries |-> Serialize(d)]
              ELSE IF outcome = "failed_before_open" THEN f ELSE GarbageFile,
     raised |-> FALSE]

\* settings_manager.py:65: object.__setattr__(self, key, value) on the
\* object the mapping holds for guild k.
Assign(d, k, field, value) ==
    [i \in 1..Len(d) |->
        IF d[i].key = k THEN [key |-> k, obj |-> [d[i].obj EXCEPT ![field] = value]]
        ELSE d[i]]

\* settings_manager.py:66: the hook is called for every field but on_change,
\* when it is set.
HookFires(o, field) == field # "on_change" /\ o.on_change

SaveThenSetAttr(d, f, k, field, value, outcome) ==
    [d |-> Assign(d, k, field, value),
     file |-> IF HookFires(Lookup(d, k), field) THEN Save(d, f, outcome).file ELSE f,
     raised |-> IF HookFires(Lookup(d, k), field) THEN Save(d, f, outcome).raised ELSE FALSE,
     write |-> IF HookFires(Lookup(d, k), field) THEN outcome ELSE "none"]

\* settings_manager.py:57-67: GuildSettings.__setattr__ on the object of
\* guild k: the assignment, then the hook, which is save() of the manager.
SetAttr(d, f, k, field, value, outcome) ==
    LET assigned == Assign(d, k, field, value)
        saved == Save(assigned, f, outcome) IN
    IF HookFires(Lookup(assigned, k), field)
    THEN [d |-> assigned, file |-> saved.file, raised |-> saved.raised, write |-> outcome]
    ELSE [d |-> assigned, file |-> f, raised |-> FALSE, write |-> "none"]

\* ------------------------------------------- utils.py: reply_history

\* What reply_history has read from one message: message.type, then
\* message.reference and reference.message_id, then reference.resolved, then
\* the outcome of channel.fetch_message.  `target` is the id of the message
\* the reference resolves to; a field the loop does not get to read keeps
\* the value it has in UnknownLink.
UnknownLink == [type |-> "unknown", reference |-> "none", target |-> 0,
                resolved |-> "none", fetch |-> "ok"]

LinkSet(S) ==
    {[type |-> "default", reference |-> "none", target |-> 0,
      resolved |-> "none", fetch |-> "ok"],
     [type |-> "reply", reference |-> "none", target |-> 0,
      resolved |-> "none", fetch |-> "ok"],
     [type |-> "reply", reference |-> "noid", target |-> 0,
      resolved |-> "none", fetch |-> "ok"],
     [type |-> "reply", reference |-> "id", target |-> 0,
      resolved |-> "deleted", fetch |-> "ok"],
     [type |-> "reply", reference |-> "id", target |-> 0,
      resolved |-> "none", fetch |-> "raise"]}
    \cup {[type |-> "reply", reference |-> "id", target |-> t,
           resolved |-> "message", fetch |-> "ok"] : t \in S}
    \cup {[type |-> "reply", reference |-> "id", target |-> t,
           resolved |-> "none", fetch |-> "ok"] : t \in S}

LimitReachedOffByOne(c, limit) == c > limit

\* utils.py:50-51
LimitReached(c, limit) == c >= limit

\* utils.py:59-65: `reference.resolved or await fetch_message(...)` inside
\* try/except, then the isinstance check: <<message>>, or <<>> when the loop
\* breaks.  A DeletedReferencedMessage is truthy, so it is never fetched.
Resolve(l) ==
    IF l.resolved = "message" THEN <<Msg(l.target, "resolved")>>
    ELSE IF l.resolved = "deleted" THEN <<>>
    ELSE IF l.fetch = "raise" THEN <<>>
    ELSE <<Msg(l.target, "fetched")>>

\* utils.py:53-67: the loop body after the limit check, on a message whose
\* type and reference are l: <<message yielded>>, or <<>> when it breaks.
LoopBody(l) ==
    IF l.type # "reply" THEN <<>>
    ELSE IF l.reference = "none" \/ l.reference = "noid" THEN <<>>
    ELSE Resolve(l)

\* ---------------------------------------- ollama_bot.py: the assembly

\* ollama_bot.py:120: {msg.id: msg for msg in message_history}: a key keeps
\* the position of its first insertion and the value of its last.
DictPut(d, m) ==
    IF \E i \in 1..Len(d) : d[i].id = m.id
    THEN [i \in 1..Len(d) |-> IF d[i].id = m.id THEN m ELSE d[i]]
    ELSE Append(d, m)

RECURSIVE DictOf(_, _)
DictOf(s, d) == IF s = <<>> THEN d ELSE DictOf(Tail(s), DictPut(d, Head(s)))

DistinctKeepAll(s) == s

\* ollama_bot.py:120: list({...}.values())
Distinct(s) == DictOf(s, <<>>)

\* ollama_bot.py:123: list.sort(key=created_at) is stable: an element goes
\* after every element whose key is not greater.
RECURSIVE InsertByKey(_, _, _)
InsertByKey(sorted, m, key) ==
    IF sorted = <<>> THEN <<m>>
    ELSE IF key[Head(sorted).id] <= key[m.id]
         THEN <<Head(sorted)>> \o InsertByKey(Tail(sorted), m, key)
         ELSE <<m>> \o sorted

RECURSIVE SortFrom(_, _, _)
SortFrom(s, acc, key) ==
    IF s = <<>> THEN acc ELSE SortFrom(Tail(s), InsertByKey(acc, Head(s), key), key)

SortByCreatedAt(s, key) == SortFrom(s, <<>>, key)

\* ollama_bot.py:117-123
Assembled(replies, history, message, key) ==
    SortByCreatedAt(Distinct(replies \o history \o <<message>>), key)

\* utils.py:71-97: the role of the converted message; `src` keeps the id of
\* the message the entry was made from.
to_ollama_message(m, bots) ==
    [role |-> IF m.id \in bots THEN "assistant" ELSE "user", src |-> m.id]

PendingEntry == [role |-> "pending", src |-> 0]

GatherInCompletionOrder(msgs, order, bots) ==
    [k \in 1..Len(msgs) |-> to_ollama_message(msgs[order[k]], bots)]

\* ollama_bot.py:126: asyncio.gather over the conversions, which finish in
\* the order `order`; each result is stored at the position of its awaitable.
RECURSIVE GatherFill(_, _, _, _, _)
GatherFill(results, msgs, order, k, bots) ==
    IF k > Len(msgs) THEN results
    ELSE GatherFill([results EXCEPT ![order[k]] = to_ollama_message(msgs[order[k]], bots)],
                    msgs, order, k + 1, bots)

Gather(msgs, order, bots) ==
    GatherFill([i \in 1..Len(msgs) |-> PendingEntry], msgs, order, 1, bots)

SystemEntry == [role |-> "system", src |-> 0]

\* ------------------------------------------ the calls on the store

\* Objects one process constructs, and writes that fail.
MaxOids == 4
MaxWriteFailures == 1

\* The values the commands assign: prompt_group.py:36, model_group.py:73,
\* role_group.py:39 (role.id or None), history_group.py:40-41.
SettingValues(field) ==
    IF field = "system_prompt" THEN {"You are a helpful assistant.", "Be brief."}
    ELSE IF field = "model" THEN {"llama3", "mistral"}
    ELSE IF field = "required_role" THEN {NoValue, <<7>>}
    ELSE {0, DEFAULT_REPLY_HISTORY}

\* The fields the commands assign here: /settings model set
\* (model_group.py:73), /settings role set, with a role or with none
\* (role_group.py:39), and /settings history set (history_group.py:40).
AssignedFields == {"model", "required_role", "reply_history"}

Called(name, write, raised) == [name |-> name, write |-> write, raised |-> raised]

Key(n) == IntToStr(n)

\* Contents of the backing file when the process starts: written by an
\* earlier run, edited by hand, or damaged.
AbsentFile == [state |-> "absent", entries |-> <<>>]

TwoGuildFile ==
    [state |-> "json", entries |->
        <<[key |-> Key(2), data |-> [guild_id |-> 2, model |-> "mistral", required_role |-> 7]],
          [key |-> Key(1), data |-> [guild_id |-> 1, reply_history |-> 0]]>>]

FileSamples ==
    {AbsentFile,
     GarbageFile,
     [state |-> "json", entries |-> <<>>],
     [state |-> "json", entries |-> <<[key |-> Key(1), data |-> [guild_id |-> 1]]>>],
     TwoGuildFile,
     [state |-> "json", entries |->
        <<[key |-> Key(1), data |-> [guild_id |-> 1]],
          [key |-> <<"x">>, data |-> [guild_id |-> 2]]>>],
     [state |-> "json", entries |->
        <<[key |-> Key(1), data |-> [guild_id |-> 1]],
          [key |-> Key(2), data |-> [guild_id |-> 2, colour |-> "red"]]>>],
     [state |-> "json", entries |-> <<[key |-> Key(1), data |-> [model |-> "mistral"]]>>]}

\* settings_manager.py:91-100: SettingsManager.__init__ in a new process:
\* an empty mapping, then load().
Restart ==
    /\ guild_settings' = Load(<<>>, file, 1).d
    /\ next_oid' = Load(<<>>, file, 1).next
    /\ op' = Called("restart", "none", Load(<<>>, file, 1).raised)
    /\ handed' = [g \in GuildIds |-> 0]
    /\ UNCHANGED <<file, write_failures, pipeVars, acVars, concVars>>

\* settings_manager.py:127-149: load() called on the running manager.
LoadCall ==
    /\ next_oid + Len(file.entries) <= MaxOids + 1
    /\ guild_settings' = Load(guild_settings, file, next_oid).d
    /\ next_oid' = Load(guild_settings, file, next_oid).next
    /\ op' = Called("load", "none", Load(guild_settings, file, next_oid).raised)
    /\ UNCHANGED <<file, handed, write_failures, pipeVars, acVars, concVars>>

\* settings_manager.py:102-115: settings_manager[g], as every command and
\* has_required_role (utils.py:28) call it.
GetItemCall ==
    \E g \in GuildIds :
        /\ HasKey(guild_settings, g) \/ next_oid <= MaxOids
        /\ guild_settings' = GetItem(guild_settings, next_oid, g).d
        /\ next_oid' = GetItem(guild_settings, next_oid, g).next
        /\ handed' = [handed EXCEPT ![g] = Lookup(guild_settings', g).oid]
        /\ op' = Called("getitem", "none", FALSE)
        /\ UNCHANGED <<file, write_failures, pipeVars, acVars, concVars>>

\* The object handed out for g is the one the mapping holds.
Live(d, h, g) == h[g] # 0 /\ HasKey(d, g) /\ Lookup(d, g).oid = h[g]

\* settings_manager.py:57-67: config.<field> = value on the object a lookup
\* returned (history_group.py:39-41, role_group.py:38-39, ...).
SetAttrOf(fields) ==
    \E g \in GuildIds, field \in fields, outcome \in WriteOutcomes :
      \E value \in SettingValues(field) :
        /\ Live(guild_settings, handed, g)
        /\ outcome # "ok" => write_failures < MaxWriteFailures
        /\ LET r == SetAttr(guild_settings, file, g, field, value, outcome) IN
             /\ guild_settings' = r.d
             /\ file' = r.file
             /\ op' = Called("setattr", r.write, r.raised)
             /\ write_failures' = IF r.write \in {"ok", "none"} THEN write_failures
                                  ELSE write_failures + 1
        /\ UNCHANGED <<next_oid, handed, pipeVars, acVars, concVars>>

\* history_group.py:39-41, role_group.py:38-39: a command looks the guild up
\* and assigns to the object it got, with no await in between.
SetCommand ==
    \E g \in GuildIds, field \in AssignedFields, outcome \in WriteOutcomes :
      \E value \in SettingValues(field) :
        /\ outcome # "ok" => write_failures < MaxWriteFailures
        /\ LET got == GetItem(guild_settings, next_oid, g)
               r == SetAttr(got.d, file, g, field, value, outcome) IN
             /\ guild_settings' = r.d
             /\ next_oid' = got.next
             /\ file' = r.file
             /\ op' = Called("setattr", r.write, r.raised)
             /\ write_failures' = IF r.write \in {"ok", "none"} THEN write_failures
                                  ELSE write_failures + 1
        /\ UNCHANGED <<handed, pipeVars, acVars, concVars>>

\* role_group.py:38-39: /settings role set, with a role or with none.
SetRoleCall == SetAttrOf({"required_role"})

\* settings_manager.py:151-169: save() called on the running manager.
SaveCall ==
    \E outcome \in WriteOutcomes :
        /\ outcome # "ok" => write_failures < MaxWriteFailures
        /\ file' = Save(guild_settings, file, outcome).file
        /\ op' = Called("save", outcome, Save(guild_settings, file, outcome).raised)
        /\ write_failures' = IF outcome = "ok" THEN write_failures ELSE write_failures + 1
        /\ UNCHANGED <<guild_settings, next_oid, handed, pipeVars, acVars, concVars>>

NoCall == [pc |-> "idle", now |-> 0, cached_models |-> <<>>, current |-> <<>>,
           refreshed |-> FALSE, result |-> <<>>]

\* model_group.py:10: the cache as the module creates it; no call yet.
AutocompleteIdle ==
    /\ clock = 0
    /\ model_cache = [time |-> 0, models |-> <<>>]
    /\ autocomplete = NoCall

\* No handler is scheduled.
LoopIdle == tasks = <<>> /\ running = 0

PipelineIdle ==
    /\ pc = "idle"
    /\ ids = {}
    /\ trigger = 0
    /\ created_at = <<>>
    /\ bot_authored = {}
    /\ links = <<>>
    /\ reply_limit = 0
    /\ current_message = 0
    /\ count = 0
    /\ message_replies = <<>>
    /\ history_window = <<>>
    /\ request = <<>>
    /\ response_text = [kind |-> "none", len |-> 0]
    /\ reply = [mode |-> "none", len |-> 0, sent |-> FALSE]
    /\ config = <<>>
    /\ chat_calls = 0
    /\ message_history = <<>>
    /\ AutocompleteIdle

\* The manager of a process that has just started on any backing file.
InitStore ==
    /\ file \in FileSamples
    /\ guild_settings = Load(<<>>, file, 1).d
    /\ next_oid = Load(<<>>, file, 1).next
    /\ op = Called("restart", "none", Load(<<>>, file, 1).raised)
    /\ handed = [g \in GuildIds |-> 0]
    /\ write_failures = 0
    /\ PipelineIdle
    /\ LoopIdle

NextStore == Restart \/ SetCommand \/ SaveCall

SpecStore == InitStore /\ [][NextStore]_vars

\* One process, in which load() is also called again on the running manager.
NextReload == LoadCall \/ GetItemCall \/ SetRoleCall \/ SaveCall

SpecReload == InitStore /\ [][NextReload]_vars

\* Arguments of /settings history set: the parameters are declared int
\* with no range (history_group.py:22), so discord passes any integer.
HistoryArgs == {0 - 1, 0, DEFAULT_REPLY_HISTORY}

Failed(outcome) == IF outcome = "ok" THEN 0 ELSE 1

\* history_group.py:34-41: /settings history set up to its await: the
\* lookup, then the two assignments, each with the save() it triggers.
HistorySetCommand ==
    \E g \in GuildIds, r \in HistoryArgs, m \in HistoryArgs :
      \E o1 \in WriteOutcomes, o2 \in WriteOutcomes :
        /\ write_failures + Failed(o1) + Failed(o2) <= MaxWriteFailures
        /\ LET got == GetItem(guild_settings, next_oid, g)
               first == SetAttr(got.d, file, g, "reply_history", r, o1)
               second == SetAttr(first.d, first.file, g, "message_history", m, o2) IN
             /\ guild_settings' = second.d
             /\ next_oid' = got.next
             /\ file' = second.file
             /\ op' = Called("setattr", second.write, second.raised)
        /\ write_failures' = write_failures + Failed(o1) + Failed(o2)
        /\ UNCHANGED <<handed, pipeVars, acVars, concVars>>

NextHistory == Restart \/ HistorySetCommand

SpecHistory == InitStore /\ [][NextHistory]_vars

\* ------------------------------------- ollama_bot.py: model call, reply

NoResponse == [kind |-> "none", len |-> 0]
NoReply == [mode |-> "none", len |-> 0, sent |-> FALSE]

\* Lengths of the texts the chat call returns, and of str(e) when it raises.
ResponseLengths == {0, 1} \cup ((MAX_LENGTH - LenSlack)..(MAX_LENGTH + LenSlack))
ErrorLengths == {0, MAX_LENGTH - ERROR_PREFIX_LENGTH, MAX_LENGTH - ERROR_PREFIX_LENGTH + 1}

\* `if response_text:`: neither None nor the empty string.
Truthy(r) == r.kind # "none" /\ r.len > 0

FitsInlineStrict(n) == n < MAX_LENGTH

\* ollama_bot.py:143
FitsInline(n) == n <= MAX_LENGTH

\* ollama_bot.py:142-149: the reply call made for response_text r: the text
\* itself, the text as response.txt, or "No response generated.".
Delivery(r) ==
    IF Truthy(r)
    THEN IF FitsInline(r.len) THEN [mode |-> "inline", len |-> r.len]
         ELSE [mode |-> "file", len |-> r.len]
    ELSE [mode |-> "placeholder", len |-> 0]

\* --------------------------------------- OllamaBot.on_message, by step

\* message.guild.id of the messages of the channel (0: message.guild is None).
ChannelGuild == 1

\* ollama_bot.py:94-110: the guards, the typing indicator and the lookup of
\* the guild's settings.
OnMessage ==
    /\ pc = "idle"
    /\ \E m \in ids, mentioned \in BOOLEAN, guild \in {0, ChannelGuild}, typing \in BOOLEAN :
         /\ trigger' = m
         /\ IF m \in bot_authored \/ ~mentioned \/ ~typing \/ guild = 0
            THEN /\ pc' = "done"
                 /\ UNCHANGED <<config, storeVars>>
            ELSE LET got == GetItem(guild_settings, next_oid, guild) IN
                 /\ pc' = "history"
                 /\ guild_settings' = got.d
                 /\ next_oid' = got.next
                 /\ config' = <<Lookup(got.d, guild)>>
                 /\ handed' = [handed EXCEPT ![guild] = Lookup(got.d, guild).oid]
                 /\ op' = Called("getitem", "none", FALSE)
                 /\ UNCHANGED <<file, write_failures>>
    /\ UNCHANGED <<ids, created_at, bot_authored, links, reply_limit, history_window,
                   message_replies, current_message, count, message_history,
                   request, response_text, reply, chat_calls, concVars, acVars>>

\* Results channel.history(limit=n, before=message) can produce: up to n of
\* the other messages of the channel, in any order.
HistoryResults(n) ==
    {[i \in 1..Len(s) |-> Msg(s[i], "history")] :
        s \in InjSeqs(ids \ {trigger}, IF n < 0 THEN 0 ELSE n)}

\* ollama_bot.py:113-114: the history is complete; reply_history starts.
HistoryFetch ==
    /\ pc = "history"
    /\ \E h \in HistoryResults(config[1].message_history) : history_window' = h
    /\ pc' = "replies"
    /\ reply_limit' = config[1].reply_history
    /\ current_message' = trigger
    /\ count' = 0
    /\ message_replies' = <<>>
    /\ UNCHANGED <<trigger, ids, created_at, bot_authored, links, message_history,
                   request, response_text, reply, config, chat_calls, storeVars, concVars, acVars>>

\* ollama_bot.py:113, 152-153: channel.history raises; the handler logs and ends.
HistoryRaises ==
    /\ pc = "history"
    /\ pc' = "done"
    /\ UNCHANGED <<trigger, ids, created_at, bot_authored, links, reply_limit,
                   history_window, message_replies, current_message, count,
                   message_history, request, response_text, reply, config, chat_calls, storeVars, concVars, acVars>>

\* utils.py:49-69: one iteration of reply_history's loop; the list
\* comprehension of ollama_bot.py:114 appends what it yields.
ReplyStep ==
    /\ pc = "replies"
    /\ IF LimitReached(count, reply_limit)
       THEN /\ pc' = "assemble"
            /\ UNCHANGED <<links, message_replies, current_message, count>>
       ELSE \E l \in (IF links[current_message] = UnknownLink
                      THEN LinkSet(ids) ELSE {links[current_message]}) :
              /\ links' = [links EXCEPT ![current_message] = l]
              /\ IF LoopBody(l) = <<>>
                 THEN /\ pc' = "assemble"
                      /\ UNCHANGED <<message_replies, current_message, count>>
                 ELSE /\ pc' = "replies"
                      /\ message_replies' = message_replies \o LoopBody(l)
                      /\ current_message' = LoopBody(l)[1].id
                      /\ count' = count + 1
    /\ UNCHANGED <<trigger, ids, created_at, bot_authored, reply_limit, history_window,
                   message_history, request, response_text, reply, config, chat_calls, storeVars, concVars, acVars>>

\* ollama_bot.py:117-123
Assemble ==
    /\ pc = "assemble"
    /\ pc' = "gather"
    /\ message_history' =
          Assembled(message_replies, history_window, Msg(trigger, "event"), created_at)
    /\ UNCHANGED <<trigger, ids, created_at, bot_authored, links, reply_limit,
                   history_window, message_replies, current_message, count,
                   request, response_text, reply, config, chat_calls, storeVars, concVars, acVars>>

\* ollama_bot.py:126-131: the conversions complete in some order; the system
\* prompt goes first.
Convert ==
    /\ pc = "gather"
    /\ pc' = "chat"
    /\ \E order \in Perms(Len(message_history)) :
         request' = <<SystemEntry>> \o Gather(message_history, order, bot_authored)
    /\ UNCHANGED <<trigger, ids, created_at, bot_authored, links, reply_limit,
                   history_window, message_replies, current_message, count,
                   message_history, response_text, reply, config, chat_calls, storeVars, concVars, acVars>>

\* ollama_bot.py:126, 152-153: reading an attachment raises; the handler logs
\* and ends.
ConvertRaises ==
    /\ pc = "gather"
    /\ pc' = "done"
    /\ UNCHANGED <<trigger, ids, created_at, bot_authored, links, reply_limit,
                   history_window, message_replies, current_message, count,
                   message_history, request, response_text, reply, config, chat_calls, storeVars, concVars, acVars>>

\* ollama_bot.py:134-135: chat returns; message.content is a string or None.
ChatReturns ==
    /\ pc = "chat"
    /\ pc' = "reply"
    /\ chat_calls' = chat_calls + 1
    /\ \/ \E n \in ResponseLengths : response_text' = [kind |-> "text", len |-> n]
       \/ response_text' = NoResponse
    /\ UNCHANGED <<trigger, ids, created_at, bot_authored, links, reply_limit,
                   history_window, message_replies, current_message, count,
                   message_history, request, reply, config, storeVars, concVars, acVars>>

RetryChat == "chat"

\* ollama_bot.py:136-141: the except clause assigns the text and logs; the
\* handler goes on to the reply.
AfterChatError == "reply"

\* ollama_bot.py:135-138: chat raises e; the text is the error message.
ChatRaises ==
    /\ pc = "chat"
    /\ pc' = AfterChatError
    /\ chat_calls' = chat_calls + 1
    /\ \E n \in ErrorLengths :
         response_text' = [kind |-> "error", len |-> ERROR_PREFIX_LENGTH + n]
    /\ UNCHANGED <<trigger, ids, created_at, bot_authored, links, reply_limit,
                   history_window, message_replies, current_message, count,
                   message_history, request, reply, config, storeVars, concVars, acVars>>

\* ollama_bot.py:141-151: the reply call; when it raises the handler logs.
Reply ==
    /\ pc = "reply"
    /\ pc' = "done"
    /\ \E sent \in BOOLEAN :
         reply' = [mode |-> Delivery(response_text).mode,
                   len |-> Delivery(response_text).len, sent |-> sent]
    /\ UNCHANGED <<trigger, ids, created_at, bot_authored, links, reply_limit,
                   history_window, message_replies, current_message, count,
                   message_history, request, response_text, config, chat_calls, storeVars, concVars, acVars>>

\* --------------------------------------------------- specifications

NoHanded == [g \in GuildIds |-> 0]
NoOp == Called("none", "none", FALSE)
StoreIdle ==
    /\ guild_settings = <<>>
    /\ file = AbsentFile
    /\ next_oid = 1
    /\ handed = NoHanded
    /\ op = NoOp
    /\ write_failures = 0
    /\ LoopIdle

\* The locals of on_message before it has assigned them.
LocalsUnset ==
    /\ request = <<>>
    /\ response_text = NoResponse
    /\ reply = NoReply
    /\ config = <<>>
    /\ chat_calls = 0
    /\ message_history = <<>>
    /\ AutocompleteIdle

\* The inputs of ollama_bot.py:117: the scenario of the specification
\* (M5 replies to M4, which replies to M3; the history is M1, M2, M3).
InitScenario ==
    /\ ids = 1..5
    /\ trigger = 5
    /\ created_at = [i \in 1..5 |-> i]
    /\ bot_authored = {4}
    /\ message_replies = <<Msg(4, "resolved"), Msg(3, "fetched")>>
    /\ history_window = <<Msg(1, "history"), Msg(2, "history"), Msg(3, "history")>>
    /\ reply_limit = 2
    /\ current_message = 3
    /\ count = 2

\* on_message at ollama_bot.py:117, after any reply walk and any history.
InitAssemble ==
    /\ pc = "assemble"
    /\ \/ /\ ids = MsgIds
          /\ trigger \in MsgIds
          /\ created_at \in [MsgIds -> Times]
          /\ bot_authored = {}
          /\ message_replies \in
                {[i \in 1..Len(s) |-> Msg(s[i], "fetched")] :
                    s \in InjSeqs(MsgIds \ {trigger}, MaxMsgs - 1)}
          /\ history_window \in
                {[i \in 1..Len(s) |-> Msg(s[i], "history")] :
                    s \in InjSeqs(MsgIds \ {trigger}, MaxMsgs - 1)}
          /\ reply_limit = Len(message_replies)
          /\ current_message = trigger
          /\ count = Len(message_replies)
       \/ InitScenario
    /\ links = [i \in ids |-> UnknownLink]
    /\ LocalsUnset
    /\ StoreIdle

NextAssemble == Assemble \/ Convert

SpecAssemble == InitAssemble /\ [][NextAssemble]_vars

\* reply_history(start, limit) for any start and limit.
InitWalk ==
    /\ pc = "replies"
    /\ ids = MsgIds
    /\ trigger \in MsgIds
    /\ reply_limit \in 0..MaxLimit
    /\ current_message = trigger
    /\ count = 0
    /\ message_replies = <<>>
    /\ history_window = <<>>
    /\ created_at = [i \in MsgIds |-> 1]
    /\ bot_authored = {}
    /\ links = [i \in ids |-> UnknownLink]
    /\ LocalsUnset
    /\ StoreIdle

NextWalk == ReplyStep

SpecWalk == InitWalk /\ [][NextWalk]_vars

\* A whole execution of on_message in a small channel.
InitPipeline ==
    /\ pc = "idle"
    /\ ids = 1..PipeMsgs
    /\ trigger = 0
    /\ created_at = [i \in 1..PipeMsgs |-> i]
    /\ bot_authored \in SUBSET {1}
    /\ links = [i \in ids |-> UnknownLink]
    /\ reply_limit = 0
    /\ current_message = 0
    /\ count = 0
    /\ message_replies = <<>>
    /\ history_window = <<>>
    /\ LocalsUnset
    /\ \/ guild_settings = <<>> /\ next_oid = 1
       \/ /\ \E r, m \in 0..(PipeMsgs - 1) :
               guild_settings =
                 <<[key |-> ChannelGuild,
                    obj |-> [GuildSettings(ChannelGuild, 1) EXCEPT !.reply_history = r,
                                                        !.message_history = m]]>>
          /\ next_oid = 2
    /\ file = AbsentFile
    /\ handed = NoHanded
    /\ op = NoOp
    /\ write_failures = 0
    /\ LoopIdle

NextPipeline ==
    \/ OnMessage
    \/ HistoryFetch
    \/ HistoryRaises
    \/ ReplyStep
    \/ Assemble
    \/ Convert
    \/ ConvertRaises
    \/ ChatReturns
    \/ ChatRaises
    \/ Reply

SpecPipeline == InitPipeline /\ [][NextPipeline]_vars

\* ------------------------------------ the event loop and its handlers

\* Handlers in flight at once.
MaxTasks == 2

Tasks == 1..MaxTasks

\* A handler, by the guild it runs in and the assignments it makes after
\* its lookup: /settings history set (history_group.py:39-41),
\* /settings role set (role_group.py:38-39), and
\* on_message, which only looks the settings up (ollama_bot.py:110).
Handlers ==
    {[guild |-> g,
      assigns |-> <<[field |-> "reply_history", value |-> r],
                    [field |-> "message_history", value |-> m]>>] :
        g \in GuildIds, r \in SettingValues("reply_history"),
        m \in SettingValues("message_history")}
    \cup {[guild |-> g, assigns |-> <<[field |-> "required_role", value |-> v]>>] :
            g \in GuildIds, v \in SettingValues("required_role")}
    \cup {[guild |-> g, assigns |-> <<>>] : g \in GuildIds}

Scheduled(h) ==
    [guild |-> h.guild, assigns |-> h.assigns, pc |-> "ready", done |-> 0,
     serializable |-> <<>>]

AfterOpenYields(t) == 0

\* settings_manager.py:151-169: save is a plain function and nothing in it
\* awaits: the task that called it is still the running one after open().
AfterOpen(t) == t

\* The event loop starts the handler of t, which runs up to its lookup:
\* history_group.py:39, role_group.py:38, ollama_bot.py:110.  on_message
\* then awaits the channel history (ollama_bot.py:113).
Resume ==
    \E t \in Tasks :
        /\ running = 0
        /\ tasks[t].pc = "ready"
        /\ LET got == GetItem(guild_settings, next_oid, tasks[t].guild) IN
             /\ guild_settings' = got.d
             /\ next_oid' = got.next
        /\ op' = Called("getitem", "none", FALSE)
        /\ IF tasks[t].assigns = <<>>
           THEN tasks' = [tasks EXCEPT ![t].pc = "await"] /\ running' = 0
           ELSE tasks' = [tasks EXCEPT ![t].pc = "assign"] /\ running' = t
        /\ UNCHANGED <<file, handed, write_failures, pipeVars, acVars>>

\* settings_manager.py:65: object.__setattr__ of the handler's next assignment.
SetAttrStep ==
    \E t \in Tasks :
        /\ running = t
        /\ tasks[t].pc = "assign"
        /\ LET a == tasks[t].assigns[tasks[t].done + 1] IN
             guild_settings' = Assign(guild_settings, tasks[t].guild, a.field, a.value)
        /\ tasks' = [tasks EXCEPT ![t].pc = "save"]
        /\ UNCHANGED <<file, next_oid, handed, op, write_failures, running, pipeVars, acVars>>

\* settings_manager.py:66-67, 155-163: the hook calls save(), which builds
\* `serializable` and opens the file for writing, which truncates it.
SaveOpen ==
    \E t \in Tasks :
        /\ running = t
        /\ tasks[t].pc = "save"
        /\ tasks' = [tasks EXCEPT ![t].pc = "dump",
                                  ![t].serializable = Serialize(guild_settings)]
        /\ file' = GarbageFile
        /\ running' = AfterOpen(t)
        /\ UNCHANGED <<guild_settings, next_oid, handed, op, write_failures, pipeVars, acVars>>

\* settings_manager.py:164: json.dump writes `serializable`; save returns,
\* and the handler goes on to its next assignment or to the await that
\* ends it (history_group.py:41, 43).
SaveDump ==
    \E t \in Tasks :
        /\ running = AfterOpen(t)
        /\ tasks[t].pc = "dump"
        /\ file' = [state |-> "json", entries |-> tasks[t].serializable]
        /\ op' = Called("setattr", "ok", FALSE)
        /\ IF tasks[t].done + 1 < Len(tasks[t].assigns)
           THEN /\ tasks' = [tasks EXCEPT ![t].pc = "assign", ![t].done = @ + 1,
                                          ![t].serializable = <<>>]
                /\ running' = t
           ELSE /\ tasks' = [tasks EXCEPT ![t].pc = "await", ![t].done = @ + 1,
                                          ![t].serializable = <<>>]
                /\ running' = 0
        /\ UNCHANGED <<guild_settings, next_oid, handed, write_failures, pipeVars, acVars>>

\* history_group.py:43, ollama_bot.py:113-153: the awaited call returns and
\* the handler ends without assigning to the settings again.
Finish ==
    \E t \in Tasks :
        /\ running = 0
        /\ tasks[t].pc = "await"
        /\ tasks' = [tasks EXCEPT ![t].pc = "done"]
        /\ UNCHANGED <<storeVars, running, pipeVars, acVars>>

InitConc ==
    /\ file \in {AbsentFile, TwoGuildFile}
    /\ guild_settings = Load(<<>>, file, 1).d
    /\ next_oid = Load(<<>>, file, 1).next
    /\ op = Called("restart", "none", Load(<<>>, file, 1).raised)
    /\ handed = [g \in GuildIds |-> 0]
    /\ write_failures = 0
    /\ PipelineIdle
    /\ tasks \in [Tasks -> {Scheduled(h) : h \in Handlers}]
    /\ running = 0

NextConc == Resume \/ SetAttrStep \/ SaveOpen \/ SaveDump \/ Finish

SpecConc == InitConc /\ [][NextConc]_vars

\* ------------------------------------ model_group.py: model_autocomplete

\* Seconds of the monotonic clock the model follows.
MaxClock == 22

REFRESH_AFTER == 10
MAX_CHOICES == 25

\* str.lower(), on the characters the names and the inputs are made of.
Lower(c) == IF c = "L" THEN "l" ELSE IF c = "M" THEN "m" ELSE c

LowerStr(str) == [i \in 1..Len(str) |-> Lower(str[i])]

\* `sub in str`
Contains(sub, str) ==
    \E k \in 0..(Len(str) - Len(sub)) : \A i \in 1..Len(sub) : str[k + i] = sub[i]

\* model_group.py:37: a Choice for every model whose name is not None; a
\* model is <<name>>, or <<>> when model.model is None.
RECURSIVE Choices(_)
Choices(models) ==
    IF models = <<>> THEN <<>>
    ELSE IF Head(models) = NoValue THEN Choices(Tail(models))
    ELSE <<[name |-> Head(models)[1], value |-> Head(models)[1]]>> \o Choices(Tail(models))

RECURSIVE Matching(_, _)
Matching(choices, current) ==
    IF choices = <<>> THEN <<>>
    ELSE IF Contains(LowerStr(current), LowerStr(Head(choices).name))
         THEN <<Head(choices)>> \o Matching(Tail(choices), current)
         ELSE Matching(Tail(choices), current)

\* model_group.py:42: the comprehension over the list it is given, cut to
\* the first 25.
Returned(choices, current) ==
    SubSeq(Matching(choices, current), 1,
           IF Len(Matching(choices, current)) < MAX_CHOICES
           THEN Len(Matching(choices, current)) ELSE MAX_CHOICES)

\* What ollama_client.list() can answer, and what the user has typed.
ManyModels == [i \in 1..(MAX_CHOICES + 1) |-> <<<<"m">> \o NatToStr(i)>>]

ServerLists ==
    {<<>>,
     <<<<<<"L", "l", "m">>>>>>,
     <<<<<<"L", "l", "m">>>>, NoValue, <<<<"m", "x">>>>>>,
     ManyModels}

Currents == {<<>>, <<"m">>, <<"L">>, <<"m", "2">>}

\* time.monotonic() between two steps.
Tick ==
    /\ \E d \in {1, REFRESH_AFTER + 1} :
         /\ clock + d <= MaxClock
         /\ clock' = clock + d
    /\ UNCHANGED <<model_cache, autocomplete, pipeVars, storeVars, concVars>>

\* model_group.py:25-34, 42: the call reads the clock and the cache into its
\* locals; it returns from `cached_models` when the cache is fresh, and
\* awaits ollama_client.list() when it is not.
AutocompleteCall ==
    /\ autocomplete.pc \in {"idle", "returned"}
    /\ \E current \in Currents :
         IF clock - model_cache.time > REFRESH_AFTER
         THEN autocomplete' = [pc |-> "listing", now |-> clock,
                               cached_models |-> model_cache.models,
                               current |-> current, refreshed |-> TRUE,
                               result |-> <<>>]
         ELSE autocomplete' = [pc |-> "returned", now |-> clock,
                               cached_models |-> model_cache.models,
                               current |-> current, refreshed |-> FALSE,
                               result |-> Returned(model_cache.models, current)]
    /\ UNCHANGED <<clock, model_cache, pipeVars, storeVars, concVars>>

\* model_group.py:36-37, 42: list() returns; the cache is replaced and the
\* call returns the matches of its local `cached_models`.
ListReturns ==
    /\ autocomplete.pc = "listing"
    /\ \E models \in ServerLists :
         model_cache' = [time |-> autocomplete.now, models |-> Choices(models)]
    /\ autocomplete' =
          [autocomplete EXCEPT !.pc = "returned",
              !.result = Returned(autocomplete.cached_models, autocomplete.current)]
    /\ UNCHANGED <<clock, pipeVars, storeVars, concVars>>

\* model_group.py:38-40: list() raises; the cache is emptied and the call
\* returns no choice.
ListRaises ==
    /\ autocomplete.pc = "listing"
    /\ model_cache' = [time |-> autocomplete.now, models |-> <<>>]
    /\ autocomplete' = [autocomplete EXCEPT !.pc = "returned", !.result = <<>>]
    /\ UNCHANGED <<clock, pipeVars, storeVars, concVars>>

InitAutocomplete == PipelineIdle /\ StoreIdle

NextAutocomplete == Tick \/ AutocompleteCall \/ ListReturns \/ ListRaises

SpecAutocomplete == InitAutocomplete /\ [][NextAutocomplete]_vars

\* ------------------------------------------------------------ claims

NoDuplicates(s) == \A i, j \in 1..Len(s) : s[i] = s[j] => i = j

\* C1: the list on_message assembles before the conversion holds exactly the
\* ids of the reply chain, of the history window and of the trigger, each
\* id once.
C1_AssembledIsUnion ==
    pc = "gather" =>
        /\ NoDuplicates(IdsOf(message_history))
        /\ Range(IdsOf(message_history)) =
              Range(IdsOf(message_replies)) \cup Range(IdsOf(history_window)) \cup {trigger}

\* The sources overlap, and the overlap was assembled once.
C1_Witness ==
    /\ pc = "gather"
    /\ Range(IdsOf(message_replies)) \cap Range(IdsOf(history_window)) # {}
    /\ Len(message_history) < Len(message_replies) + Len(history_window) + 1
    /\ trigger \in Range(IdsOf(message_history))

NonDecreasing(s, key) == \A i, j \in 1..Len(s) : i < j => key[s[i]] <= key[s[j]]

ScenarioInputs ==
    /\ trigger = 5
    /\ IdsOf(message_replies) = <<4, 3>>
    /\ IdsOf(history_window) = <<1, 2, 3>>
    /\ \A i, j \in 1..5 : i < j => created_at[i] < created_at[j]

RequestSources == [i \in 1..(Len(request) - 1) |-> request[i + 1].src]

\* C2: the entries handed to the model after the system entry are
\* non-decreasing by creation time and are the conversions of the sorted
\* list in its order, whatever order the conversions finish in; in the
\* scenario of the specification the order is M1, M2, M3, M4, M5.
C2_RequestOrdered ==
    /\ pc = "gather" => NonDecreasing(IdsOf(message_history), created_at)
    /\ pc = "chat" =>
          /\ request[1] = SystemEntry
          /\ RequestSources = IdsOf(message_history)
          /\ NonDecreasing(RequestSources, created_at)
          /\ ScenarioInputs => RequestSources = <<1, 2, 3, 4, 5>>

C2_Witness ==
    /\ pc = "chat"
    /\ ScenarioInputs
    /\ RequestSources = <<1, 2, 3, 4, 5>>

\* The reply target of a message can be resolved: it is a reply with a
\* reference id whose message is cached or can be fetched.
Resolvable(l) ==
    /\ l.type = "reply"
    /\ l.reference = "id"
    /\ \/ l.resolved = "message"
       \/ l.resolved = "none" /\ l.fetch = "ok"

\* The ancestors of m, nearest first: at most n, up to the first message
\* whose reply target cannot be resolved.
RECURSIVE AncestorChain(_, _, _)
AncestorChain(world, m, n) ==
    IF n <= 0 \/ ~Resolvable(world[m]) THEN <<>>
    ELSE <<world[m].target>> \o AncestorChain(world, world[m].target, n - 1)

Visited(i) == IF i = 1 THEN trigger ELSE message_replies[i - 1].id

\* C3: reply_history(start, limit) ends, yields at most limit messages, each
\* the resolved reply target of the message visited before it, and stops at
\* the first message whose target cannot be resolved: what it yields is the
\* ancestor chain of start cut at limit.
C3_ReplyHistory ==
    /\ Len(message_replies) <= reply_limit
    /\ count = Len(message_replies)
    /\ \A i \in 1..Len(message_replies) :
          /\ Resolvable(links[Visited(i)])
          /\ message_replies[i].id = links[Visited(i)].target
    /\ pc = "replies" => ENABLED ReplyStep
    /\ pc = "assemble" =>
          IdsOf(message_replies) = AncestorChain(links, trigger, reply_limit)

\* The walk ended before the limit, at a message that does not resolve.
C3_Witness ==
    /\ pc = "assemble"
    /\ Len(message_replies) >= 1
    /\ Len(message_replies) < reply_limit
    /\ ~Resolvable(links[current_message])

\* C10 as claimed: every text of at most MAX_LENGTH characters is sent as
\* the text of the reply, every longer one as a file.
C10_Original ==
    (pc = "done" /\ reply.mode # "none" /\ response_text.kind = "text") =>
        /\ response_text.len <= 2000 =>
              reply.mode = "inline" /\ reply.len = response_text.len
        /\ response_text.len > 2000 => reply.mode = "file"

\* C10, amended: a non-empty text is sent as the text of the reply when it
\* has at most 2000 characters and as a file when it has more; an empty or
\* absent text is replaced by the notice "No response generated.".
C10_DeliveryByLength ==
    (pc = "done" /\ reply.mode # "none") =>
        /\ (response_text.kind # "none" /\ response_text.len \in 1..2000) =>
              reply.mode = "inline" /\ reply.len = response_text.len
        /\ (response_text.kind # "none" /\ response_text.len > 2000) =>
              reply.mode = "file" /\ reply.len = response_text.len
        /\ (response_text.kind = "none" \/ response_text.len = 0) =>
              reply.mode = "placeholder"

\* A text of exactly MAX_LENGTH characters went out as the reply's text.
C10_Witness ==
    /\ pc = "done"
    /\ response_text.kind = "text"
    /\ response_text.len = 2000
    /\ reply.mode = "inline"

\* The file holds the settings of every guild of the mapping d, each field
\* with the value it has in memory (a field that is None is not written).
FileHolds(f, d) ==
    /\ f.state = "json"
    /\ Len(f.entries) = Len(d)
    /\ \A i \in 1..Len(d) :
          /\ ParseInt(f.entries[i].key) = <<d[i].key>>
          /\ \A k \in InitFields :
                IF k = "required_role"
                THEN IF d[i].obj[k] = NoValue THEN k \notin DOMAIN f.entries[i].data
                     ELSE k \in DOMAIN f.entries[i].data
                          /\ <<f.entries[i].data[k]>> = d[i].obj[k]
                ELSE k \in DOMAIN f.entries[i].data /\ f.entries[i].data[k] = d[i].obj[k]

\* C4: every assignment to a field of a GuildSettings of the store runs
\* save() within the assignment, after the new value is in memory, and the
\* write, when it succeeds, holds every guild of the mapping with its
\* current values.
C4_AssignmentSaves ==
    [][op'.name = "setattr" =>
          /\ op'.write \in WriteOutcomes
          /\ op'.write = "ok" => FileHolds(file', guild_settings')]_vars

\* An assignment to guild 1 wrote both guilds, the one that was not
\* assigned to as well, and the written value differs from the default.
C4_Witness ==
    /\ op.name = "setattr"
    /\ op.write = "ok"
    /\ Len(guild_settings) = 2
    /\ HasKey(guild_settings, 1)
    /\ Lookup(guild_settings, 1).required_role = <<7>>
    /\ Lookup(guild_settings, 1).model = "mistral"
    /\ FileHolds(file, guild_settings)

\* The two mappings have the same guild ids and, for each, the same
\* values of the six fields.
FieldEqual(d1, d2) ==
    /\ {d1[i].key : i \in 1..Len(d1)} = {d2[i].key : i \in 1..Len(d2)}
    /\ \A i \in 1..Len(d1) :
          \A k \in InitFields : Lookup(d2, d1[i].key)[k] = d1[i].obj[k]

Saved(d, f) == f = Save(d, f, "ok").file

\* C5: a new manager that loads the file a successful save() wrote holds
\* the same guild ids with field-equal settings; a required_role of None
\* comes back as None.
C5_RoundTrip ==
    [][(op'.name = "restart" /\ Saved(guild_settings, file)) =>
          FieldEqual(guild_settings', guild_settings)]_vars

\* A restart on a saved file of two guilds, one with required_role None and
\* a reply_history of 0, the other with a role.
C5_Witness ==
    /\ op.name = "restart"
    /\ Saved(guild_settings, file)
    /\ Len(guild_settings) = 2
    /\ \E i, j \in 1..2 :
          /\ guild_settings[i].obj.required_role = NoValue
          /\ guild_settings[i].obj.reply_history = 0
          /\ guild_settings[j].obj.required_role = <<7>>

\* C6 as claimed: an object the store has returned for a guild stays the
\* object the mapping holds for it, whatever is called afterwards.
C6_Original == \A g \in GuildIds : handed[g] # 0 => Live(guild_settings, handed, g)

\* C6, amended: lookups, assignments and save() never remove an entry of
\* the mapping and never replace its object, so an object the store has
\* returned stays the live one as long as load() is not called again; a
\* lookup leaves every entry as it was.
C6_InstanceKept ==
    [][op'.name # "load" =>
          /\ \A i \in 1..Len(guild_settings) :
                /\ HasKey(guild_settings', guild_settings[i].key)
                /\ Lookup(guild_settings', guild_settings[i].key).oid =
                      guild_settings[i].obj.oid
          /\ \A g \in GuildIds :
                Live(guild_settings, handed, g) => Live(guild_settings', handed', g)
          /\ op'.name = "getitem" =>
                \A i \in 1..Len(guild_settings) : guild_settings'[i] = guild_settings[i]]_vars

\* The object returned for guild 1 has been assigned to and saved, and is
\* still the one the mapping holds.
C6_Witness ==
    /\ op.name = "setattr"
    /\ op.write = "ok"
    /\ Live(guild_settings, handed, 1)
    /\ Lookup(guild_settings, 1).required_role = <<7>>

\* The file is present and load() cannot read all of it.
Malformed(f) ==
    \/ f.state = "garbage"
    \/ /\ f.state = "json"
       /\ \E i \in 1..Len(f.entries) :
             \/ ParseInt(f.entries[i].key) = <<>>
             \/ ~(DOMAIN f.entries[i].data \subseteq InitFields)

IsDefault(o, g) ==
    \A k \in InitFields : o[k] = GuildSettings(g, 0)[k]

\* C7: load() on a malformed file leaves the mapping empty and raises
\* nothing, also when entries before the bad one were valid; a lookup of a
\* guild the mapping does not hold returns the defaults.
C7_MalformedLoad ==
    [][/\ (op'.name = "load" /\ Malformed(file)) =>
             guild_settings' = <<>> /\ ~op'.raised
       /\ op'.name = "getitem" =>
             \A g \in GuildIds :
                (~HasKey(guild_settings, g) /\ HasKey(guild_settings', g)) =>
                    IsDefault(Lookup(guild_settings', g), g)]_vars

\* load() ran on a file whose first entry is valid and whose second is
\* not, in a process that had handed out an object: the mapping is empty.
C7_Witness ==
    /\ op.name = "load"
    /\ Malformed(file)
    /\ file.state = "json"
    /\ Len(file.entries) = 2
    /\ ConstructOk(file.entries[1].data)
    /\ ParseInt(file.entries[1].key) # <<>>
    /\ handed[1] # 0
    /\ guild_settings = <<>>

\* C8: at most one save() is between its start and its end, the task in it
\* is the one the event loop runs, the next step is the end of that save()
\* and moves no other handler, and what it writes is the serialization of
\* the mapping as it is in memory.
C8_SerializedWrites ==
    /\ [](/\ Cardinality({t \in Tasks : tasks[t].pc = "dump"}) <= 1
          /\ \A t \in Tasks : tasks[t].pc \in {"save", "dump"} => running = t)
    /\ [][\A t \in Tasks : tasks[t].pc = "dump" =>
             /\ tasks'[t].pc # "dump"
             /\ \A u \in Tasks \ {t} : tasks'[u] = tasks[u]
             /\ guild_settings' = guild_settings
             /\ file' = [state |-> "json", entries |-> Serialize(guild_settings)]]_vars

\* One handler is inside save() while another, which has assigned and
\* saved, is suspended in its await.
C8_Witness ==
    \E t, u \in Tasks :
        /\ t # u
        /\ tasks[t].pc = "dump"
        /\ tasks[u].pc = "await"
        /\ tasks[u].done >= 1

\* C9: a failed write raises nothing into the assignment or the caller of
\* save() and leaves the mapping as the assignment made it: the assigned
\* field has its new value, nothing else has changed; a write that succeeds
\* afterwards holds the values in memory.
C9_WriteFailure ==
    [][/\ op'.write \in {"failed_before_open", "failed_after_open"} =>
             /\ ~op'.raised
             /\ op'.name = "save" => guild_settings' = guild_settings
             /\ op'.name = "setattr" =>
                   \E g \in GuildIds, k \in SettingFields :
                      \E v \in SettingValues(k) :
                         guild_settings' =
                            Assign(GetItem(guild_settings, next_oid, g).d, g, k, v)
       /\ (op'.write = "ok" /\ write_failures > 0) => FileHolds(file', guild_settings')]_vars

\* An assignment whose write failed after the file was opened: the file is
\* unreadable and the mapping has the assigned value.
C9_Witness ==
    /\ op.name = "setattr"
    /\ op.write = "failed_after_open"
    /\ ~op.raised
    /\ file = GarbageFile
    /\ HasKey(guild_settings, 1)
    /\ Lookup(guild_settings, 1).required_role = <<7>>

\* The handler ended in the conversions: the list was assembled and no
\* request was built from it.
ConversionFailed == message_history # <<>> /\ request = <<>>

\* C11 as claimed: a handler that has looked the settings up and whose
\* conversions did not fail calls the model and makes a reply call, also
\* when the fetch of the channel history or of a reply target raised.
C11_Original ==
    (pc = "done" /\ config # <<>> /\ ~ConversionFailed) =>
        /\ request # <<>>
        /\ reply.mode # "none"

\* channel.history raised: the handler ended with nothing assembled, no
\* request and no reply call.
C11_Witness ==
    /\ pc = "done"
    /\ config # <<>>
    /\ message_history = <<>>
    /\ request = <<>>
    /\ reply.mode = "none"

\* C12: a handler calls chat at most once; when the call raised it has been
\* made exactly once, the handler goes on to the reply, and the reply call
\* carries the text that describes the error, as the text of the reply or
\* as the attached file.
C12_ChatFailure ==
    /\ chat_calls <= 1
    /\ response_text.kind = "error" =>
          /\ chat_calls = 1
          /\ pc \in {"reply", "done"}
          /\ response_text.len >= ERROR_PREFIX_LENGTH
          /\ pc = "reply" => ENABLED Reply
          /\ pc = "done" =>
                /\ reply.mode \in {"inline", "file"}
                /\ reply.len = response_text.len

\* The chat call raised and the error text was sent as the reply.
C12_Witness ==
    /\ pc = "done"
    /\ response_text.kind = "error"
    /\ chat_calls = 1
    /\ reply.mode = "inline"
    /\ reply.sent

\* C13 as claimed: every GuildSettings of the mapping has a reply_history
\* and a message_history of at least 0.
C13_Original ==
    \A i \in 1..Len(guild_settings) :
        /\ guild_settings[i].obj.reply_history >= 0
        /\ guild_settings[i].obj.message_history >= 0

\* /settings history set with negative arguments: both are in memory and in
\* the file.
C13_Witness ==
    /\ op.name = "setattr"
    /\ HasKey(guild_settings, 1)
    /\ Lookup(guild_settings, 1).reply_history < 0
    /\ Lookup(guild_settings, 1).message_history < 0
    /\ FileHolds(file, guild_settings)

\* C14 as claimed: the reply walk does not wait for the history fetch:
\* while the fetch is pending, a step of the walk can be taken.
C14_Original == pc = "history" => ENABLED ReplyStep

\* The walk has resolved a reply target, and the history fetch had
\* completed with its messages before the walk started.
C14_Witness ==
    /\ pc = "replies"
    /\ count >= 1
    /\ history_window # <<>>

\* C15 as claimed: what a call of model_autocomplete returns is the
\* matching choices of the cache as it is when the call returns, at most
\* 25 of them.
C15_Original ==
    autocomplete.pc = "returned" =>
        /\ autocomplete.result = Returned(model_cache.models, autocomplete.current)
        /\ Len(autocomplete.result) <= MAX_CHOICES

\* A call refreshed the cache, which now holds choices that match the
\* input, and returned none of them.
C15_Witness ==
    /\ autocomplete.pc = "returned"
    /\ autocomplete.refreshed
    /\ Returned(model_cache.models, autocomplete.current) # <<>>
    /\ autocomplete.result = <<>>

====
